---- MODULE Spec2Model ----
(***************************************************************************)
(* Voice registry (python/voice_config.py, manage_voices.py) and the      *)
(* Spark-TTS bridge (python/spark_bridge.py) of SynaGen2.0.               *)
(*                                                                         *)
(* Python values are represented as follows:                              *)
(*   - a dict is a function whose DOMAIN is the set of its keys;           *)
(*   - an Optional value is a sequence, <<>> for None and <<v>> for v;     *)
(*   - a file is a record with an `exists` flag and its content;           *)
(*   - an object's identity is the construction event that made it.       *)
(***************************************************************************)
EXTENDS Integers, Sequences, FiniteSets, TLC

\* ---------------------------------------------------------------- bounds
\* The number of voice ids, besides "default", that callers use.
NumVoices == 2

VoiceNames == <<"voiceA", "voiceB", "voiceC", "voiceD">>

\* Voice ids a caller may pass.  "default" is an ordinary string for the
\* registry: add_voice accepts any voice_id.
RegisteredIds == {VoiceNames[i] : i \in 1..NumVoices}
VoiceIds == {"default"} \cup RegisteredIds
ModelDirs == {"models/x", "models/y"}
DisplayNames == {"Alice", "Bob"}

\* Path("pretrained_models/Spark-TTS-0.5B").absolute()
DefaultModelDir == "pretrained_models/Spark-TTS-0.5B"

NoArg == "-"

\* output_path of a request (the default of --output) and the fixed log path.
OutputPath == "output.wav"
ErrorLogPath == "tts_error.log"

\* custom_voice_path values: a sample that exists and one that does not.
SamplePath == "samples/voice.wav"
MissingPath == "samples/missing.wav"

Texts == {"", "hello"}

VARIABLES
    voices,      \* VoiceConfig.voices: dict voice_id -> {model_dir, display_name}
    document,    \* the file at VoiceConfig.config_path
    fs,          \* the paths that exist on the filesystem (os.path.exists)
    call,        \* the last completed operation, its arguments and its result
    prev,        \* the operation completed before `call` (arguments only)
    peer,        \* VoiceConfig.voices of a second registry process (Optional)
    pc,          \* where the bridge process is: boot, script, api, exited, crashed
    torch_installed,       \* `import torch` succeeded
    SPARK_TTS_AVAILABLE,   \* module global of spark_bridge.py
    tts_models,  \* VoiceManager.tts_models: dict key -> engine
    constructed, \* per key, how many SparkTTS objects were constructed for it
    out_file,    \* the file at OutputPath
    log_file,    \* the file at ErrorLogPath
    stdout_results  \* JSON lines carrying a "success" flag printed so far

registry_vars == <<voices, document>>
bridge_vars == <<pc, torch_installed, SPARK_TTS_AVAILABLE, tts_models, constructed,
                 out_file, log_file, stdout_results>>
vars == <<voices, document, fs, call, prev, peer, pc, torch_installed, SPARK_TTS_AVAILABLE,
          tts_models, constructed, out_file, log_file, stdout_results>>

\* ------------------------------------------------------------ dict values
Voice(model_dir, display_name) ==
    [model_dir |-> model_dir, display_name |-> display_name]

EmptyDict == [k \in {} |-> Voice(NoArg, NoArg)]

\* d[k] = v   (Python item assignment: insert or overwrite)
DictSet(d, k, v) == [x \in (DOMAIN d) \cup {k} |-> IF x = k THEN v ELSE d[x]]

\* del d[k]
DictDel(d, k) == [x \in (DOMAIN d) \ {k} |-> d[x]]

AllRegistries ==
    UNION {[S -> [model_dir : ModelDirs, display_name : DisplayNames]] :
           S \in SUBSET RegisteredIds}

\* ------------------------------------------------------- the JSON document
\* json.dump writes an object with one member per key of the dict, the value
\* being the object {"model_dir": ..., "display_name": ...}.  A member is
\* modelled as the tuple <<key, <<"model_dir", v>>, <<"display_name", v>>>>.
AbsentFile == [exists |-> FALSE, members |-> {}]

json_dump(d) ==
    [exists |-> TRUE,
     members |-> {<<k, <<"model_dir", d[k].model_dir>>,
                       <<"display_name", d[k].display_name>>>> : k \in DOMAIN d}]

\* json.load: the dict whose keys are the members' names.
json_load(f) ==
    [k \in {m[1] : m \in f.members} |->
        LET m == CHOOSE m \in f.members : m[1] = k
        IN  Voice(m[2][2], m[3][2])]

\* VoiceConfig._load_config
load_config(f) == IF f.exists THEN json_load(f) ELSE EmptyDict

\* _save_config writing every entry but one (a truncated write).
save_config_partial(d) ==
    IF DOMAIN d = {} THEN json_dump(d)
    ELSE json_dump(DictDel(d, CHOOSE k \in DOMAIN d : TRUE))

\* VoiceConfig._save_config
save_config(d) == json_dump(d)

\* VoiceConfig.get_voice: self.voices.get(voice_id)
get_voice(d, voice_id) == IF voice_id \in DOMAIN d THEN <<d[voice_id]>> ELSE <<>>

\* os.path.exists(path)
path_exists(path) == path \in fs

\* ------------------------------------------------------------- exceptions
Exc(class, msg) == [class |-> class, msg |-> msg]
NoExc == Exc("", "")

\* What the external collaborators (the SparkTTS constructor, inference,
\* soundfile) may raise: an import error, a missing file, anything else.
ExcKinds == {"ImportError", "FileNotFoundError", "Exception"}

\* The step of a request at which the environment makes it fail.
Fault(step, exc) == [step |-> step, exc |-> exc]
NoFault == Fault("none", NoExc)
Faults ==
    {NoFault, Fault("mkdir", Exc("OSError", "mkdir")),
     Fault("sf_import", Exc("ImportError", "soundfile")),
     Fault("sf_write", Exc("Exception", "write")),
     Fault("vanish", NoExc)}
    \cup {Fault("construct", Exc(k, "engine")) : k \in ExcKinds}
    \cup {Fault("inference", Exc(k, "inference")) : k \in ExcKinds}

\* ------------------------------------------------------------------ files
AbsentOut == [exists |-> FALSE, content |-> "none"]
AudioFile == [exists |-> TRUE, content |-> "audio16k"]
PlaceholderFile == [exists |-> TRUE, content |-> "emptywav"]

NoLog == [exists |-> FALSE, text |-> "", voice_id |-> <<>>, custom |-> <<>>,
          output |-> "", exception |-> ""]

\* ---------------------------------------------------------------- engines
\* A SparkTTS object: `key` and `serial` name the construction event (its
\* identity), model_dir is the directory it was constructed on.
Engine(key, serial, model_dir) == [key |-> key, serial |-> serial, model_dir |-> model_dir]
NoModels == [k \in {} |-> Engine("", 0, "")]

\* ---------------------------------------------------------------- results
Result(kind, success, file, message, detail, voice, trace, error_log_path, listing) ==
    [kind |-> kind, success |-> success, file |-> file, message |-> message,
     detail |-> detail, voice |-> voice, trace |-> trace, log_file |-> error_log_path,
     listing |-> listing]
NoListing == [k \in {} |-> [display_name |-> "", model_dir |-> "",
                           loaded |-> FALSE, valid |-> FALSE]]
NoResult == Result("none", FALSE, <<>>, "", "", <<>>, FALSE, <<>>, NoListing)

\* ------------------------------------------------------------ call records
NoCall ==
    [op |-> "none", voice_id |-> <<>>, model_dir |-> NoArg, display_name |-> NoArg,
     ret_bool |-> FALSE, ret_voice |-> <<>>, ret_dict |-> EmptyDict,
     action |-> NoArg, text |-> <<>>, custom |-> <<>>, fault |-> NoFault,
     raised |-> NoExc, engine |-> <<>>, result |-> NoResult,
     resolved |-> FALSE, built |-> {}, inferred |-> 0, printed |-> 0]

Call(op, voice_id, model_dir, display_name, ret_bool, ret_voice, ret_dict) ==
    [NoCall EXCEPT !.op = op, !.voice_id = voice_id, !.model_dir = model_dir,
                   !.display_name = display_name, !.ret_bool = ret_bool,
                   !.ret_voice = ret_voice, !.ret_dict = ret_dict]

Args(c) == [op |-> c.op, voice_id |-> c.voice_id, model_dir |-> c.model_dir,
            display_name |-> c.display_name]

\* --------------------------------------------------------------- registry
\* VoiceConfig.__init__ of manage_voices.py: the registry is loaded from the
\* document, which is absent or was written by an earlier run of the program.
InitRegistry ==
    /\ document \in {AbsentFile} \cup
           {json_dump(d) : d \in {r \in AllRegistries : Cardinality(DOMAIN r) <= 1}}
    /\ voices = load_config(document)
    /\ fs \in SUBSET ModelDirs
    /\ call = NoCall
    /\ prev = Args(NoCall)
    /\ peer = <<>>
    /\ pc = "registry"
    /\ torch_installed = FALSE
    /\ SPARK_TTS_AVAILABLE = FALSE
    /\ tts_models = NoModels
    /\ constructed = [k \in VoiceIds |-> 0]
    /\ out_file = AbsentOut
    /\ log_file = NoLog
    /\ stdout_results = 0

\* add_voice keeping an entry that is already there (dict.setdefault).
add_voice_setdefault(voice_id, model_dir, display_name) ==
    /\ voices' = IF voice_id \in DOMAIN voices THEN voices
                 ELSE DictSet(voices, voice_id, Voice(model_dir, display_name))
    /\ document' = save_config(voices')
    /\ call' = Call("add_voice", <<voice_id>>, model_dir, display_name, FALSE, <<>>, EmptyDict)
    /\ UNCHANGED <<fs, bridge_vars>>

\* add_voice calling _save_config before the assignment.
add_voice_save_first(voice_id, model_dir, display_name) ==
    /\ document' = save_config(voices)
    /\ voices' = DictSet(voices, voice_id, Voice(model_dir, display_name))
    /\ call' = Call("add_voice", <<voice_id>>, model_dir, display_name, FALSE, <<>>, EmptyDict)
    /\ UNCHANGED <<fs, bridge_vars>>

\* add_voice reading the document again before it writes, so that entries
\* another process wrote are kept.
add_voice_merges(voice_id, model_dir, display_name) ==
    /\ LET on_disk == load_config(document)
           merged == [k \in (DOMAIN on_disk) \cup (DOMAIN voices) |->
                        IF k \in DOMAIN voices THEN voices[k] ELSE on_disk[k]]
       IN  voices' = DictSet(merged, voice_id, Voice(model_dir, display_name))
    /\ document' = save_config(voices')
    /\ call' = Call("add_voice", <<voice_id>>, model_dir, display_name, FALSE, <<>>, EmptyDict)
    /\ UNCHANGED <<fs, bridge_vars>>

\* VoiceConfig.add_voice
add_voice(voice_id, model_dir, display_name) ==
    /\ voices' = DictSet(voices, voice_id, Voice(model_dir, display_name))
    /\ document' = save_config(voices')
    /\ call' = Call("add_voice", <<voice_id>>, model_dir, display_name, FALSE, <<>>, EmptyDict)
    /\ UNCHANGED <<fs, bridge_vars>>

\* remove_voice saving whether or not an entry was deleted.
remove_voice_always_saves(voice_id) ==
    /\ voices' = DictDel(voices, voice_id)
    /\ document' = save_config(voices')
    /\ call' = Call("remove_voice", <<voice_id>>, NoArg, NoArg,
                    voice_id \in DOMAIN voices, <<>>, EmptyDict)
    /\ UNCHANGED <<fs, bridge_vars>>

\* VoiceConfig.remove_voice
remove_voice(voice_id) ==
    /\ IF voice_id \in DOMAIN voices
       THEN /\ voices' = DictDel(voices, voice_id)
            /\ document' = save_config(voices')
            /\ call' = Call("remove_voice", <<voice_id>>, NoArg, NoArg, TRUE, <<>>, EmptyDict)
       ELSE /\ UNCHANGED <<voices, document>>
            /\ call' = Call("remove_voice", <<voice_id>>, NoArg, NoArg, FALSE, <<>>, EmptyDict)
    /\ UNCHANGED <<fs, bridge_vars>>

\* A caller's VoiceConfig.get_voice(voice_id)
GetVoice(voice_id) ==
    /\ call' = Call("get_voice", <<voice_id>>, NoArg, NoArg, FALSE,
                    get_voice(voices, voice_id), EmptyDict)
    /\ UNCHANGED <<voices, document, fs, bridge_vars>>

\* VoiceConfig.list_voices
list_voices ==
    /\ call' = Call("list_voices", <<>>, NoArg, NoArg, FALSE, <<>>, voices)
    /\ UNCHANGED <<voices, document, fs, bridge_vars>>

\* validate_voice without the os.path.exists check.
validate_voice_registry_only(voice_id) ==
    /\ call' = Call("validate_voice", <<voice_id>>, NoArg, NoArg,
                    get_voice(voices, voice_id) # <<>>, <<>>, EmptyDict)
    /\ UNCHANGED <<voices, document, fs, bridge_vars>>

\* VoiceConfig.validate_voice
validate_voice(voice_id) ==
    /\ LET voice == get_voice(voices, voice_id)
       IN  call' = Call("validate_voice", <<voice_id>>, NoArg, NoArg,
                        IF voice = <<>> THEN FALSE
                        ELSE path_exists(voice[1].model_dir),
                        <<>>, EmptyDict)
    /\ UNCHANGED <<voices, document, fs, bridge_vars>>

\* The environment creates or deletes a directory.
FsChange(path) ==
    /\ fs' = IF path \in fs THEN fs \ {path} ELSE fs \cup {path}
    /\ call' = Call("fs_change", <<>>, path, NoArg, FALSE, <<>>, EmptyDict)
    /\ UNCHANGED <<voices, document, bridge_vars>>

\* The registry process remembers the call before the last one.
Track == prev' = Args(call)

NextRegistry ==
    \/ \E id \in RegisteredIds, dir \in ModelDirs, name \in DisplayNames :
          add_voice(id, dir, name) /\ Track /\ UNCHANGED peer
    \/ \E id \in RegisteredIds : remove_voice(id) /\ Track /\ UNCHANGED peer
    \/ \E id \in RegisteredIds : GetVoice(id) /\ Track /\ UNCHANGED peer
    \/ list_voices /\ Track /\ UNCHANGED peer
    \/ \E id \in RegisteredIds : validate_voice(id) /\ Track /\ UNCHANGED peer
    \/ \E path \in ModelDirs : FsChange(path) /\ Track /\ UNCHANGED peer

SpecRegistry == InitRegistry /\ [][NextRegistry]_vars

\* ------------------------------------------------- two registry processes
\* A second process (another run of manage_voices.py, or the bridge) creates
\* its own VoiceConfig: it loads the document as it is at that moment.
StartPeer ==
    /\ peer = <<>>
    /\ peer' = <<load_config(document)>>
    /\ call' = Call("start_peer", <<>>, NoArg, NoArg, FALSE, <<>>, EmptyDict)
    /\ UNCHANGED <<voices, document, fs, bridge_vars>>

\* VoiceConfig.add_voice in the second process
peer_add_voice(voice_id, model_dir, display_name) ==
    /\ peer # <<>>
    /\ peer' = <<DictSet(peer[1], voice_id, Voice(model_dir, display_name))>>
    /\ document' = save_config(peer'[1])
    /\ call' = Call("peer_add_voice", <<voice_id>>, model_dir, display_name,
                    FALSE, <<>>, EmptyDict)
    /\ UNCHANGED <<voices, fs, bridge_vars>>

\* VoiceConfig.remove_voice in the second process
peer_remove_voice(voice_id) ==
    /\ peer # <<>>
    /\ IF voice_id \in DOMAIN peer[1]
       THEN /\ peer' = <<DictDel(peer[1], voice_id)>>
            /\ document' = save_config(peer'[1])
            /\ call' = Call("peer_remove_voice", <<voice_id>>, NoArg, NoArg, TRUE,
                            <<>>, EmptyDict)
       ELSE /\ UNCHANGED <<peer, document>>
            /\ call' = Call("peer_remove_voice", <<voice_id>>, NoArg, NoArg, FALSE,
                            <<>>, EmptyDict)
    /\ UNCHANGED <<voices, fs, bridge_vars>>

\* The first process registers voices under the display name "Alice", the
\* second under "Bob"; the document they start from holds "Alice" entries.
InitTwo ==
    /\ InitRegistry
    /\ fs = ModelDirs
    /\ \A m \in document.members : m[3][2] = "Alice"

\* Whole calls of the two processes in any order.
NextTwo ==
    \/ \E id \in RegisteredIds, dir \in ModelDirs :
          add_voice(id, dir, "Alice") /\ UNCHANGED <<prev, peer>>
    \/ \E id \in RegisteredIds : remove_voice(id) /\ UNCHANGED <<prev, peer>>
    \/ StartPeer /\ UNCHANGED prev
    \/ \E id \in RegisteredIds, dir \in ModelDirs :
          peer_add_voice(id, dir, "Bob") /\ UNCHANGED prev
    \/ \E id \in RegisteredIds : peer_remove_voice(id) /\ UNCHANGED prev

SpecTwo == InitTwo /\ [][NextTwo]_vars

\* ----------------------------------------------------------------- bridge
\* The Python truth value of an Optional string (None and "" are false).
Truthy(opt) == opt # <<>> /\ opt[1] # ""

\* What get_tts hands back: an exception or an engine, and the cache after it.
Resolved(raised, engine, models, counts) ==
    [raised |-> raised, engine |-> engine, tts_models |-> models, constructed |-> counts]

\* SparkTTS(model_dir, device) evaluated for cache key `key`.  The name
\* SparkTTS is bound only when the import at module level succeeded.
SparkTTS(outcome) ==
    IF ~SPARK_TTS_AVAILABLE THEN Exc("NameError", "name 'SparkTTS' is not defined")
    ELSE outcome

\* get_tts constructing a voice's engine again when the registry entry no
\* longer names the directory the cached engine was built on.
get_tts_reloads(voice_id, outcome) ==
    IF voice_id = <<>> \/ get_voice(voices, voice_id[1]) = <<>>
    THEN IF "default" \notin DOMAIN tts_models
         THEN IF ~path_exists(DefaultModelDir)
              THEN Resolved(Exc("FileNotFoundError", "Default model directory not found"),
                            <<>>, tts_models, constructed)
              ELSE IF SparkTTS(outcome) # NoExc
              THEN Resolved(SparkTTS(outcome), <<>>, tts_models, constructed)
              ELSE LET e == Engine("default", constructed["default"] + 1, DefaultModelDir)
                   IN  Resolved(NoExc, <<e>>, DictSet(tts_models, "default", e),
                                [constructed EXCEPT !["default"] = @ + 1])
         ELSE Resolved(NoExc, <<tts_models["default"]>>, tts_models, constructed)
    ELSE LET id == voice_id[1]
             model_dir == get_voice(voices, id)[1].model_dir
         IN  IF id \notin DOMAIN tts_models \/ tts_models[id].model_dir # model_dir
             THEN IF ~path_exists(model_dir)
                  THEN Resolved(Exc("FileNotFoundError", "Model directory for voice not found"),
                                <<>>, tts_models, constructed)
                  ELSE IF SparkTTS(outcome) # NoExc
                  THEN Resolved(Exc("RuntimeError", "Failed to load model for voice"),
                                <<>>, tts_models, constructed)
                  ELSE LET e == Engine(id, constructed[id] + 1, model_dir)
                       IN  Resolved(NoExc, <<e>>, DictSet(tts_models, id, e),
                                    [constructed EXCEPT ![id] = @ + 1])
             ELSE Resolved(NoExc, <<tts_models[id]>>, tts_models, constructed)

\* get_tts looking in the cache before it looks in the registry.
get_tts_cache_first(voice_id, outcome) ==
    IF voice_id # <<>> /\ voice_id[1] \in DOMAIN tts_models
    THEN Resolved(NoExc, <<tts_models[voice_id[1]]>>, tts_models, constructed)
    ELSE IF voice_id = <<>> \/ get_voice(voices, voice_id[1]) = <<>>
    THEN IF "default" \notin DOMAIN tts_models
         THEN IF ~path_exists(DefaultModelDir)
              THEN Resolved(Exc("FileNotFoundError", "Default model directory not found"),
                            <<>>, tts_models, constructed)
              ELSE IF SparkTTS(outcome) # NoExc
              THEN Resolved(SparkTTS(outcome), <<>>, tts_models, constructed)
              ELSE LET e == Engine("default", constructed["default"] + 1, DefaultModelDir)
                   IN  Resolved(NoExc, <<e>>, DictSet(tts_models, "default", e),
                                [constructed EXCEPT !["default"] = @ + 1])
         ELSE Resolved(NoExc, <<tts_models["default"]>>, tts_models, constructed)
    ELSE LET id == voice_id[1]
             model_dir == get_voice(voices, id)[1].model_dir
         IN  IF ~path_exists(model_dir)
             THEN Resolved(Exc("FileNotFoundError", "Model directory for voice not found"),
                           <<>>, tts_models, constructed)
             ELSE IF SparkTTS(outcome) # NoExc
             THEN Resolved(Exc("RuntimeError", "Failed to load model for voice"),
                           <<>>, tts_models, constructed)
             ELSE LET e == Engine(id, constructed[id] + 1, model_dir)
                  IN  Resolved(NoExc, <<e>>, DictSet(tts_models, id, e),
                               [constructed EXCEPT ![id] = @ + 1])

\* get_tts storing the cache entry before the constructor has returned, so
\* that a constructor that raises leaves an unusable entry behind.
get_tts_caches_failure(voice_id, outcome) ==
    IF voice_id = <<>> \/ get_voice(voices, voice_id[1]) = <<>>
    THEN IF "default" \notin DOMAIN tts_models
         THEN IF ~path_exists(DefaultModelDir)
              THEN Resolved(Exc("FileNotFoundError", "Default model directory not found"),
                            <<>>, tts_models, constructed)
              ELSE IF SparkTTS(outcome) # NoExc
              THEN Resolved(SparkTTS(outcome), <<>>,
                            DictSet(tts_models, "default",
                                    Engine("default", 0, DefaultModelDir)),
                            constructed)
              ELSE LET e == Engine("default", constructed["default"] + 1, DefaultModelDir)
                   IN  Resolved(NoExc, <<e>>, DictSet(tts_models, "default", e),
                                [constructed EXCEPT !["default"] = @ + 1])
         ELSE Resolved(NoExc, <<tts_models["default"]>>, tts_models, constructed)
    ELSE LET id == voice_id[1]
         IN  IF id \notin DOMAIN tts_models
             THEN LET model_dir == get_voice(voices, id)[1].model_dir
                  IN  IF ~path_exists(model_dir)
                      THEN Resolved(Exc("FileNotFoundError", "Model directory for voice not found"),
                                    <<>>, tts_models, constructed)
                      ELSE IF SparkTTS(outcome) # NoExc
                      THEN Resolved(Exc("RuntimeError", "Failed to load model for voice"),
                                    <<>>, DictSet(tts_models, id, Engine(id, 0, model_dir)),
                                    constructed)
                      ELSE LET e == Engine(id, constructed[id] + 1, model_dir)
                           IN  Resolved(NoExc, <<e>>, DictSet(tts_models, id, e),
                                        [constructed EXCEPT ![id] = @ + 1])
             ELSE Resolved(NoExc, <<tts_models[id]>>, tts_models, constructed)

\* VoiceManager.get_tts(voice_id); `outcome` is what a SparkTTS construction
\* does if one is attempted (NoExc: it succeeds).
get_tts(voice_id, outcome) ==
    IF voice_id = <<>> \/ get_voice(voices, voice_id[1]) = <<>>
    THEN IF "default" \notin DOMAIN tts_models
         THEN IF ~path_exists(DefaultModelDir)
              THEN Resolved(Exc("FileNotFoundError", "Default model directory not found"),
                            <<>>, tts_models, constructed)
              ELSE IF SparkTTS(outcome) # NoExc
              THEN Resolved(SparkTTS(outcome), <<>>, tts_models, constructed)
              ELSE LET e == Engine("default", constructed["default"] + 1, DefaultModelDir)
                   IN  Resolved(NoExc, <<e>>, DictSet(tts_models, "default", e),
                                [constructed EXCEPT !["default"] = @ + 1])
         ELSE Resolved(NoExc, <<tts_models["default"]>>, tts_models, constructed)
    ELSE LET id == voice_id[1]
         IN  IF id \notin DOMAIN tts_models
             THEN LET model_dir == get_voice(voices, id)[1].model_dir
                  IN  IF ~path_exists(model_dir)
                      THEN Resolved(Exc("FileNotFoundError", "Model directory for voice not found"),
                                    <<>>, tts_models, constructed)
                      ELSE IF SparkTTS(outcome) # NoExc
                      THEN Resolved(Exc("RuntimeError", "Failed to load model for voice"),
                                    <<>>, tts_models, constructed)
                      ELSE LET e == Engine(id, constructed[id] + 1, model_dir)
                           IN  Resolved(NoExc, <<e>>, DictSet(tts_models, id, e),
                                        [constructed EXCEPT ![id] = @ + 1])
             ELSE Resolved(NoExc, <<tts_models[id]>>, tts_models, constructed)

\* list_voices adding the "default" entry only once that engine is loaded.
manager_list_voices_loaded_only ==
    LET result == [id \in DOMAIN voices |->
                     [display_name |-> voices[id].display_name,
                      model_dir |-> voices[id].model_dir,
                      loaded |-> id \in DOMAIN tts_models,
                      valid |-> path_exists(voices[id].model_dir)]]
    IN  IF "default" \notin DOMAIN result /\ "default" \in DOMAIN tts_models
        THEN [id \in (DOMAIN result) \cup {"default"} |->
                IF id = "default"
                THEN [display_name |-> "Default Voice",
                      model_dir |-> DefaultModelDir,
                      loaded |-> "default" \in DOMAIN tts_models,
                      valid |-> path_exists(DefaultModelDir)]
                ELSE result[id]]
        ELSE result

\* VoiceManager.list_voices
manager_list_voices ==
    LET result == [id \in DOMAIN voices |->
                     [display_name |-> voices[id].display_name,
                      model_dir |-> voices[id].model_dir,
                      loaded |-> id \in DOMAIN tts_models,
                      valid |-> path_exists(voices[id].model_dir)]]
    IN  IF "default" \notin DOMAIN result
        THEN [id \in (DOMAIN result) \cup {"default"} |->
                IF id = "default"
                THEN [display_name |-> "Default Voice",
                      model_dir |-> DefaultModelDir,
                      loaded |-> "default" \in DOMAIN tts_models,
                      valid |-> path_exists(DefaultModelDir)]
                ELSE result[id]]
        ELSE result

\* What one run of process_tts_request leaves behind: the exception that
\* escapes it (NoExc when it returns), the dict it returns, and the state.
Outcome(raised, result, engine, models, counts, out, log, resolved, inferred) ==
    [raised |-> raised, result |-> result, engine |-> engine, tts_models |-> models,
     constructed |-> counts, out_file |-> out, log_file |-> log,
     resolved |-> resolved, inferred |-> inferred]

\* The try block without the SPARK_TTS_AVAILABLE test at its head.
try_block_unguarded(text, voice_id, custom, fault) ==
    LET g == get_tts(voice_id, IF fault.step = "construct" THEN fault.exc ELSE NoExc)
        Stop(e, out, inferred) ==
            Outcome(e, NoResult, g.engine, g.tts_models, g.constructed, out, log_file,
                    TRUE, inferred)
    IN  IF g.raised # NoExc THEN Stop(g.raised, out_file, 0)
        ELSE IF Truthy(custom) /\ ~path_exists(custom[1])
        THEN Stop(Exc("FileNotFoundError", "Voice file not found: " \o custom[1]),
                  out_file, 0)
        ELSE IF fault.step \in {"inference", "sf_import", "sf_write"}
        THEN Stop(fault.exc, out_file, 1)
        ELSE IF fault.step = "vanish"
        THEN Stop(Exc("FileNotFoundError", "Output file was not created"), AbsentOut, 1)
        ELSE LET voice_info ==
                   IF Truthy(voice_id) /\ get_voice(voices, voice_id[1]) # <<>>
                   THEN <<[voice_id |-> voice_id[1],
                           voice_name |-> get_voice(voices, voice_id[1])[1].display_name]>>
                   ELSE <<>>
             IN  Outcome(NoExc,
                         Result("tts_ok", TRUE, <<OutputPath>>,
                                "Audio generated successfully", "", voice_info,
                                FALSE, <<>>, NoListing),
                         g.engine, g.tts_models, g.constructed, AudioFile, log_file, TRUE, 1)

\* The try block without the output_path.exists() test after the write.
try_block_unverified(text, voice_id, custom, fault) ==
    IF ~SPARK_TTS_AVAILABLE
    THEN Outcome(Exc("ImportError", "Spark-TTS modules not available"), NoResult, <<>>,
                 tts_models, constructed, out_file, log_file, FALSE, 0)
    ELSE
    LET g == get_tts(voice_id, IF fault.step = "construct" THEN fault.exc ELSE NoExc)
        Stop(e, out, inferred) ==
            Outcome(e, NoResult, g.engine, g.tts_models, g.constructed, out, log_file,
                    TRUE, inferred)
    IN  IF g.raised # NoExc THEN Stop(g.raised, out_file, 0)
        ELSE IF Truthy(custom) /\ ~path_exists(custom[1])
        THEN Stop(Exc("FileNotFoundError", "Voice file not found: " \o custom[1]),
                  out_file, 0)
        ELSE IF fault.step \in {"inference", "sf_import", "sf_write"}
        THEN Stop(fault.exc, out_file, 1)
        ELSE LET voice_info ==
                   IF Truthy(voice_id) /\ get_voice(voices, voice_id[1]) # <<>>
                   THEN <<[voice_id |-> voice_id[1],
                           voice_name |-> get_voice(voices, voice_id[1])[1].display_name]>>
                   ELSE <<>>
             IN  Outcome(NoExc,
                         Result("tts_ok", TRUE, <<OutputPath>>,
                                "Audio generated successfully", "", voice_info,
                                FALSE, <<>>, NoListing),
                         g.engine, g.tts_models, g.constructed,
                         IF fault.step = "vanish" THEN AbsentOut ELSE AudioFile,
                         log_file, TRUE, 1)

\* The try block looking for the custom voice file only after inference.
try_block_late_check(text, voice_id, custom, fault) ==
    IF ~SPARK_TTS_AVAILABLE
    THEN Outcome(Exc("ImportError", "Spark-TTS modules not available"), NoResult, <<>>,
                 tts_models, constructed, out_file, log_file, FALSE, 0)
    ELSE
    LET g == get_tts(voice_id, IF fault.step = "construct" THEN fault.exc ELSE NoExc)
        Stop(e, out, inferred) ==
            Outcome(e, NoResult, g.engine, g.tts_models, g.constructed, out, log_file,
                    TRUE, inferred)
    IN  IF g.raised # NoExc THEN Stop(g.raised, out_file, 0)
        ELSE IF fault.step \in {"inference", "sf_import", "sf_write"}
        THEN Stop(fault.exc, out_file, 1)
        ELSE IF Truthy(custom) /\ ~path_exists(custom[1])
        THEN Stop(Exc("FileNotFoundError", "Voice file not found: " \o custom[1]),
                  out_file, 1)
        ELSE IF fault.step = "vanish"
        THEN Stop(Exc("FileNotFoundError", "Output file was not created"), AbsentOut, 1)
        ELSE LET voice_info ==
                   IF Truthy(voice_id) /\ get_voice(voices, voice_id[1]) # <<>>
                   THEN <<[voice_id |-> voice_id[1],
                           voice_name |-> get_voice(voices, voice_id[1])[1].display_name]>>
                   ELSE <<>>
             IN  Outcome(NoExc,
                         Result("tts_ok", TRUE, <<OutputPath>>,
                                "Audio generated successfully", "", voice_info,
                                FALSE, <<>>, NoListing),
                         g.engine, g.tts_models, g.constructed, AudioFile, log_file, TRUE, 1)

\* The try block of process_tts_request (lines 165-216).
try_block(text, voice_id, custom, fault) ==
    IF ~SPARK_TTS_AVAILABLE
    THEN Outcome(Exc("ImportError", "Spark-TTS modules not available"), NoResult, <<>>,
                 tts_models, constructed, out_file, log_file, FALSE, 0)
    ELSE
    LET g == get_tts(voice_id, IF fault.step = "construct" THEN fault.exc ELSE NoExc)
        Stop(e, out, inferred) ==
            Outcome(e, NoResult, g.engine, g.tts_models, g.constructed, out, log_file,
                    TRUE, inferred)
    IN  IF g.raised # NoExc THEN Stop(g.raised, out_file, 0)
        ELSE IF Truthy(custom) /\ ~path_exists(custom[1])
        THEN Stop(Exc("FileNotFoundError", "Voice file not found: " \o custom[1]),
                  out_file, 0)
        ELSE IF fault.step \in {"inference", "sf_import", "sf_write"}
        THEN Stop(fault.exc, out_file, 1)
        ELSE IF fault.step = "vanish"
        THEN Stop(Exc("FileNotFoundError", "Output file was not created"), AbsentOut, 1)
        ELSE LET voice_info ==
                   IF Truthy(voice_id) /\ get_voice(voices, voice_id[1]) # <<>>
                   THEN <<[voice_id |-> voice_id[1],
                           voice_name |-> get_voice(voices, voice_id[1])[1].display_name]>>
                   ELSE <<>>
             IN  Outcome(NoExc,
                         Result("tts_ok", TRUE, <<OutputPath>>,
                                "Audio generated successfully", "", voice_info,
                                FALSE, <<>>, NoListing),
                         g.engine, g.tts_models, g.constructed, AudioFile, log_file, TRUE, 1)

\* process_tts_request dropping the engine it loaded when the request fails.
process_tts_request_evicts(text, voice_id, custom, fault, handler_ok) ==
    IF fault.step = "mkdir"
    THEN Outcome(fault.exc, NoResult, <<>>, tts_models, constructed, out_file, log_file,
                 FALSE, 0)
    ELSE
    LET t == try_block(text, voice_id, custom, fault)
        Escapes == [t EXCEPT !.raised = Exc("OSError", "open")]
        Logged(kind, message) ==
            [t EXCEPT !.raised = NoExc,
                      !.tts_models = tts_models,
                      !.log_file = [exists |-> TRUE, text |-> text, voice_id |-> voice_id,
                                    custom |-> custom, output |-> OutputPath,
                                    exception |-> t.raised.msg],
                      !.result = Result(kind, FALSE, <<>>, message, t.raised.msg, <<>>,
                                        TRUE, <<ErrorLogPath>>, NoListing)]
    IN  IF t.raised = NoExc THEN t
        ELSE IF t.raised.class \in {"ImportError", "ModuleNotFoundError"}
        THEN IF handler_ok
             THEN [t EXCEPT !.raised = NoExc,
                            !.out_file = PlaceholderFile,
                            !.result = Result("fallback", FALSE, <<OutputPath>>,
                                              "Spark-TTS is not properly installed",
                                              t.raised.msg, <<>>, FALSE, <<>>, NoListing)]
             ELSE Escapes
        ELSE IF t.raised.class = "FileNotFoundError"
        THEN IF handler_ok THEN Logged("file_not_found", "File not found") ELSE Escapes
        ELSE IF handler_ok THEN Logged("error", "Error generating audio") ELSE Escapes

\* process_tts_request(text, voice_id, custom_voice_path, output_path):
\* `fault` is the step the environment fails; handler_ok tells whether the
\* file an except clause opens for writing can be written.
process_tts_request(text, voice_id, custom, fault, handler_ok) ==
    IF fault.step = "mkdir"
    THEN Outcome(fault.exc, NoResult, <<>>, tts_models, constructed, out_file, log_file,
                 FALSE, 0)
    ELSE
    LET t == try_block(text, voice_id, custom, fault)
        Escapes == [t EXCEPT !.raised = Exc("OSError", "open")]
        Logged(kind, message) ==
            [t EXCEPT !.raised = NoExc,
                      !.log_file = [exists |-> TRUE, text |-> text, voice_id |-> voice_id,
                                    custom |-> custom, output |-> OutputPath,
                                    exception |-> t.raised.msg],
                      !.result = Result(kind, FALSE, <<>>, message, t.raised.msg, <<>>,
                                        TRUE, <<ErrorLogPath>>, NoListing)]
    IN  IF t.raised = NoExc THEN t
        ELSE IF t.raised.class \in {"ImportError", "ModuleNotFoundError"}
        THEN IF handler_ok
             THEN [t EXCEPT !.raised = NoExc,
                            !.out_file = PlaceholderFile,
                            !.result = Result("fallback", FALSE, <<OutputPath>>,
                                              "Spark-TTS is not properly installed",
                                              t.raised.msg, <<>>, FALSE, <<>>, NoListing)]
             ELSE Escapes
        ELSE IF t.raised.class = "FileNotFoundError"
        THEN IF handler_ok THEN Logged("file_not_found", "File not found") ELSE Escapes
        ELSE IF handler_ok THEN Logged("error", "Error generating audio") ELSE Escapes

\* handle_list_voices
handle_list_voices ==
    Result("list_ok", TRUE, <<>>, "", "", <<>>, FALSE, <<>>, manager_list_voices)

\* The cache keys for which an engine was constructed between two counts.
Built(before, after) == {k \in VoiceIds : after[k] > before[k]}

\* The registries a document holds when the bridge starts.
BridgeRegistries ==
    {r \in UNION {[S -> [model_dir : ModelDirs, display_name : {"Alice"}]] :
                  S \in SUBSET VoiceIds} : Cardinality(DOMAIN r) <= 2}

\* The state of the spark_bridge.py process before its module-level code ran.
Init ==
    /\ document \in {AbsentFile} \cup {json_dump(d) : d \in BridgeRegistries}
    /\ voices = EmptyDict
    /\ fs \in {S \cup {SamplePath} : S \in SUBSET (ModelDirs \cup {DefaultModelDir})}
    /\ call = NoCall
    /\ prev = Args(NoCall)
    /\ peer = <<>>
    /\ pc = "boot"
    /\ torch_installed = FALSE
    /\ SPARK_TTS_AVAILABLE = FALSE
    /\ tts_models = NoModels
    /\ constructed = [k \in VoiceIds |-> 0]
    /\ out_file = AbsentOut
    /\ log_file = NoLog
    /\ stdout_results = 0

\* Module-level code of spark_bridge.py (lines 13-145): the torch import, the
\* SparkTTS import, and `voice_manager = VoiceManager()`.  as_script tells
\* whether the file runs as __main__ or is imported.
Boot(torch_ok, spark_ok, as_script) ==
    /\ pc = "boot"
    /\ torch_installed' = torch_ok
    /\ SPARK_TTS_AVAILABLE' = spark_ok
    /\ stdout_results' = IF spark_ok THEN stdout_results ELSE stdout_results + 1
    /\ IF torch_ok
       THEN /\ voices' = load_config(document)
            /\ pc' = IF as_script THEN "script" ELSE "api"
            /\ call' = [NoCall EXCEPT !.op = "boot"]
       ELSE /\ voices' = voices
            /\ pc' = "crashed"
            /\ call' = [NoCall EXCEPT !.op = "boot",
                          !.raised = Exc("NameError", "name 'torch' is not defined")]
    /\ UNCHANGED <<document, fs, tts_models, constructed, out_file, log_file>>

\* A caller's voice_manager.get_tts(voice_id)
GetTts(voice_id, outcome) ==
    /\ pc = "api"
    /\ LET g == get_tts(voice_id, outcome)
       IN  /\ tts_models' = g.tts_models
           /\ constructed' = g.constructed
           /\ call' = [NoCall EXCEPT !.op = "get_tts", !.voice_id = voice_id,
                         !.raised = g.raised, !.engine = g.engine, !.resolved = TRUE,
                         !.built = Built(constructed, g.constructed)]
    /\ UNCHANGED <<voices, document, fs, pc, torch_installed, SPARK_TTS_AVAILABLE,
                   out_file, log_file, stdout_results>>

\* A caller's process_tts_request(text, voice_id, custom_voice_path)
ProcessTtsRequest(text, voice_id, custom, fault, handler_ok) ==
    /\ pc = "api"
    /\ LET o == process_tts_request(text, voice_id, custom, fault, handler_ok)
       IN  /\ tts_models' = o.tts_models
           /\ constructed' = o.constructed
           /\ out_file' = o.out_file
           /\ log_file' = o.log_file
           /\ call' = [NoCall EXCEPT !.op = "process_tts_request", !.text = <<text>>,
                         !.voice_id = voice_id, !.custom = custom, !.fault = fault,
                         !.raised = o.raised, !.engine = o.engine, !.result = o.result,
                         !.resolved = o.resolved, !.inferred = o.inferred,
                         !.built = Built(constructed, o.constructed)]
    /\ UNCHANGED <<voices, document, fs, pc, torch_installed, SPARK_TTS_AVAILABLE,
                   stdout_results>>

\* A caller's handle_list_voices()
HandleListVoices ==
    /\ pc = "api"
    /\ call' = [NoCall EXCEPT !.op = "handle_list_voices", !.result = handle_list_voices]
    /\ UNCHANGED <<voices, document, fs, bridge_vars>>

\* __main__ (lines 285-314) when parse_args rejects the command line:
\* argparse prints a usage message to stderr and raises SystemExit(2).
main_parse_error ==
    /\ pc = "script"
    /\ pc' = "exited"
    /\ call' = [NoCall EXCEPT !.op = "main", !.action = "invalid",
                  !.raised = Exc("SystemExit", "2")]
    /\ UNCHANGED <<voices, document, fs, torch_installed, SPARK_TTS_AVAILABLE,
                   tts_models, constructed, out_file, log_file, stdout_results>>

\* __main__ with --action list_voices
main_list_voices ==
    /\ pc = "script"
    /\ pc' = "exited"
    /\ stdout_results' = stdout_results + 1
    /\ call' = [NoCall EXCEPT !.op = "main", !.action = "list_voices",
                  !.result = handle_list_voices, !.printed = 1]
    /\ UNCHANGED <<voices, document, fs, torch_installed, SPARK_TTS_AVAILABLE,
                   tts_models, constructed, out_file, log_file>>

\* The dict the outermost except clause of __main__ prints.
Unexpected(e) ==
    Result("unexpected", FALSE, <<>>, "Unexpected error", e.msg, <<>>, TRUE, <<>>, NoListing)

\* __main__ handing the request to process_tts_request without looking at
\* args.text.
main_tts_unvalidated(text, voice_id, custom, fault, handler_ok) ==
    /\ pc = "script"
    /\ pc' = "exited"
    /\ stdout_results' = stdout_results + 1
    /\ LET o == process_tts_request(IF text = <<>> THEN "" ELSE text[1],
                                    voice_id, custom, fault, handler_ok)
       IN  /\ tts_models' = o.tts_models
           /\ constructed' = o.constructed
           /\ out_file' = o.out_file
           /\ log_file' = o.log_file
           /\ call' = [NoCall EXCEPT !.op = "main", !.action = "tts", !.text = text,
                         !.voice_id = voice_id, !.custom = custom, !.fault = fault,
                         !.engine = o.engine,
                         !.result = IF o.raised = NoExc THEN o.result
                                    ELSE Unexpected(o.raised),
                         !.resolved = o.resolved, !.inferred = o.inferred,
                         !.built = Built(constructed, o.constructed),
                         !.printed = 1]
    /\ UNCHANGED <<voices, document, fs, torch_installed, SPARK_TTS_AVAILABLE>>

\* __main__ with --action tts; text, voice_id and custom are Optional.
main_tts(text, voice_id, custom, fault, handler_ok) ==
    /\ pc = "script"
    /\ pc' = "exited"
    /\ stdout_results' = stdout_results + 1
    /\ IF ~Truthy(text)
       THEN /\ call' = [NoCall EXCEPT !.op = "main", !.action = "tts", !.text = text,
                          !.voice_id = voice_id, !.custom = custom,
                          !.result = Unexpected(Exc("ValueError",
                                         "--text argument is required for TTS action")),
                          !.printed = 1]
            /\ UNCHANGED <<tts_models, constructed, out_file, log_file>>
       ELSE LET o == process_tts_request(text[1], voice_id, custom, fault, handler_ok)
            IN  /\ tts_models' = o.tts_models
                /\ constructed' = o.constructed
                /\ out_file' = o.out_file
                /\ log_file' = o.log_file
                /\ call' = [NoCall EXCEPT !.op = "main", !.action = "tts", !.text = text,
                              !.voice_id = voice_id, !.custom = custom, !.fault = fault,
                              !.engine = o.engine,
                              !.result = IF o.raised = NoExc THEN o.result
                                         ELSE Unexpected(o.raised),
                              !.resolved = o.resolved, !.inferred = o.inferred,
                              !.built = Built(constructed, o.constructed),
                              !.printed = 1]
    /\ UNCHANGED <<voices, document, fs, torch_installed, SPARK_TTS_AVAILABLE>>

OptVoiceIds == {<<>>} \cup {<<id>> : id \in VoiceIds}
OptCustom == {<<>>, <<SamplePath>>, <<MissingPath>>}
OptTexts == {<<>>} \cup {<<t>> : t \in Texts}
ConstructOutcomes == {NoExc} \cup {Exc(k, "engine") : k \in ExcKinds}

\* spark_bridge.py run as a script: one command line, one request.
Next ==
    \/ \E torch_ok \in BOOLEAN, spark_ok \in BOOLEAN :
          Boot(torch_ok, spark_ok, TRUE) /\ UNCHANGED <<prev, peer>>
    \/ main_parse_error /\ UNCHANGED <<prev, peer>>
    \/ main_list_voices /\ UNCHANGED <<prev, peer>>
    \/ \E text \in OptTexts, voice_id \in OptVoiceIds, custom \in OptCustom,
          fault \in Faults, handler_ok \in BOOLEAN :
          main_tts(text, voice_id, custom, fault, handler_ok) /\ UNCHANGED <<prev, peer>>

Spec == Init /\ [][Next]_vars

\* spark_bridge.py imported as a module: its voice_manager serves any number
\* of calls while the registry and the filesystem change.
NextCache ==
    \/ \E torch_ok \in BOOLEAN, spark_ok \in BOOLEAN :
          Boot(torch_ok, spark_ok, FALSE) /\ UNCHANGED <<prev, peer>>
    \/ \E voice_id \in OptVoiceIds, outcome \in ConstructOutcomes :
          GetTts(voice_id, outcome) /\ UNCHANGED <<prev, peer>>
    \/ HandleListVoices /\ UNCHANGED <<prev, peer>>
    \/ \E id \in VoiceIds, dir \in ModelDirs :
          pc = "api" /\ add_voice(id, dir, "Alice") /\ UNCHANGED <<prev, peer>>
    \/ \E id \in VoiceIds : pc = "api" /\ remove_voice(id) /\ UNCHANGED <<prev, peer>>
    \/ \E path \in ModelDirs \cup {DefaultModelDir} :
          pc = "api" /\ FsChange(path) /\ UNCHANGED <<prev, peer>>

SpecCache == Init /\ [][NextCache]_vars

\* The same process serving synthesis requests as well, on a filesystem that
\* holds every model directory.  A request either goes through or fails at a
\* step after the engine was obtained.
InitRequests ==
    /\ Init
    /\ fs = ModelDirs \cup {DefaultModelDir, SamplePath}

LateFaults == {NoFault, Fault("inference", Exc("Exception", "inference"))}

NextRequests ==
    \/ \E torch_ok \in BOOLEAN, spark_ok \in BOOLEAN :
          Boot(torch_ok, spark_ok, FALSE) /\ UNCHANGED <<prev, peer>>
    \/ \E voice_id \in OptVoiceIds : GetTts(voice_id, NoExc) /\ UNCHANGED <<prev, peer>>
    \/ \E voice_id \in OptVoiceIds, fault \in LateFaults :
          ProcessTtsRequest("hello", voice_id, <<>>, fault, TRUE) /\ UNCHANGED <<prev, peer>>
    \/ \E id \in VoiceIds, dir \in ModelDirs :
          pc = "api" /\ add_voice(id, dir, "Alice") /\ UNCHANGED <<prev, peer>>
    \/ \E id \in VoiceIds : pc = "api" /\ remove_voice(id) /\ UNCHANGED <<prev, peer>>

SpecRequests == InitRequests /\ [][NextRequests]_vars

\* The steps after get_tts at which a request can fail.
PipelineFaults ==
    {NoFault, Fault("inference", Exc("Exception", "inference")),
     Fault("sf_write", Exc("Exception", "write")), Fault("vanish", NoExc)}

\* The same process serving one request after another from a registry that
\* does not change, with or without a custom voice sample that is missing.
NextPipeline ==
    \/ \E torch_ok \in BOOLEAN, spark_ok \in BOOLEAN :
          Boot(torch_ok, spark_ok, FALSE) /\ UNCHANGED <<prev, peer>>
    \/ \E voice_id \in OptVoiceIds, custom \in {<<>>, <<MissingPath>>},
          fault \in PipelineFaults :
          ProcessTtsRequest("hello", voice_id, custom, fault, TRUE)
             /\ UNCHANGED <<prev, peer>>

SpecPipeline == InitRequests /\ [][NextPipeline]_vars

\* ------------------------------------------------------- registry properties
Mutation(c) == c.op = "add_voice" \/ (c.op = "remove_voice" /\ c.ret_bool)

\* C2: after every completed add_voice or remove_voice the persisted document
\* is the serialisation of the in-memory mapping, and in every state a fresh
\* registry loaded from the document (the empty mapping when there is no
\* document) equals the in-memory mapping.
C2_DocumentEqualsMemory ==
    /\ load_config(document) = voices
    /\ ~document.exists => voices = EmptyDict
    /\ Mutation(call) => document.exists /\ document = json_dump(voices)

C2_Witness ==
    /\ call.op = "remove_voice" /\ call.ret_bool
    /\ prev.op = "add_voice"
    /\ Cardinality(DOMAIN voices) >= 1
    /\ load_config(document) = voices

\* C3: get_voice(id) right after add_voice(id, dir, name) returns exactly
\* {model_dir: dir, display_name: name}, and add_voice leaves the entry of
\* every other id as it was.
C3_AddThenGet ==
    [][/\ (call.op = "add_voice" /\ call'.op = "get_voice"
             /\ call'.voice_id = call.voice_id)
          => call'.ret_voice = <<Voice(call.model_dir, call.display_name)>>
       /\ call'.op = "add_voice"
          => /\ get_voice(voices', call'.voice_id[1])
                  = <<Voice(call'.model_dir, call'.display_name)>>
             /\ \A o \in VoiceIds \ {call'.voice_id[1]} :
                  get_voice(voices', o) = get_voice(voices, o)]_vars

\* the add overwrote an entry and another id is registered
C3_Witness ==
    /\ call.op = "get_voice" /\ prev.op = "add_voice"
    /\ prev.voice_id = call.voice_id
    /\ call.ret_voice = <<Voice(prev.model_dir, prev.display_name)>>
    /\ Cardinality(DOMAIN voices) >= 2

\* C4: a second add_voice with the arguments of the add_voice just completed
\* changes neither the mapping list_voices returns nor the document.
C4_AddIdempotent ==
    [][(call.op = "add_voice" /\ call'.op = "add_voice" /\ Args(call') = Args(call))
          => voices' = voices /\ document' = document]_vars

C4_Witness ==
    /\ call.op = "add_voice" /\ prev = Args(call)
    /\ Cardinality(DOMAIN voices) >= 2
    /\ document = json_dump(voices)

\* C5: remove_voice(id) of a registered id returns True, deletes exactly that
\* entry and a following get_voice(id) returns None; remove_voice(id) of an
\* unregistered id returns False and changes neither mapping nor document.
C5_Remove ==
    [][/\ call'.op = "remove_voice"
          => LET id == call'.voice_id[1]
             IN  IF id \in DOMAIN voices
                 THEN /\ call'.ret_bool
                      /\ get_voice(voices', id) = <<>>
                      /\ \A o \in VoiceIds \ {id} :
                            get_voice(voices', o) = get_voice(voices, o)
                 ELSE /\ ~call'.ret_bool
                      /\ voices' = voices
                      /\ document' = document
       /\ (call.op = "remove_voice" /\ call.ret_bool /\ call'.op = "get_voice"
             /\ call'.voice_id = call.voice_id)
          => call'.ret_voice = <<>>]_vars

\* a removal that did not find the id, with no document on disk
C5_Witness ==
    /\ call.op = "remove_voice" /\ ~call.ret_bool
    /\ prev.op = "remove_voice" /\ prev.voice_id = call.voice_id
    /\ ~document.exists

\* C6: validate_voice(id) returns True exactly when id is registered and its
\* model_dir exists at the moment of the call, without changing the registry.
C6_ValidateLive ==
    [][call'.op = "validate_voice"
          => /\ call'.ret_bool =
                  (/\ call'.voice_id[1] \in DOMAIN voices
                   /\ voices[call'.voice_id[1]].model_dir \in fs)
             /\ voices' = voices /\ document' = document]_vars

\* the directory of a registered voice was deleted just before the call
C6_Witness ==
    /\ call.op = "validate_voice" /\ ~call.ret_bool
    /\ call.voice_id[1] \in DOMAIN voices
    /\ prev.op = "fs_change"
    /\ prev.model_dir = voices[call.voice_id[1]].model_dir

\* --------------------------------------------------------- bridge properties
\* C1: no step removes a key from the engine cache or binds it to another
\* engine, and no key ever has a second engine constructed for it.
C1_CacheBindingsPermanent ==
    [][/\ \A k \in DOMAIN tts_models :
             k \in DOMAIN tts_models' /\ tts_models'[k] = tts_models[k]
       /\ \A k \in VoiceIds : constructed'[k] <= 1]_vars

\* a request for a voice whose registry entry now names another directory was
\* served by the engine built on the old one
C1_Witness ==
    /\ call.op = "process_tts_request" /\ call.raised = NoExc
    /\ call.voice_id # <<>> /\ call.voice_id[1] # "default"
    /\ call.voice_id[1] \in DOMAIN voices
    /\ call.voice_id[1] \in DOMAIN tts_models
    /\ call.engine = <<tts_models[call.voice_id[1]]>>
    /\ call.built = {}
    /\ tts_models[call.voice_id[1]].model_dir # voices[call.voice_id[1]].model_dir

\* get_tts was called without a voice_id or with one the registry lacks
FallbackCall ==
    /\ call.op = "get_tts"
    /\ (call.voice_id = <<>> \/ call.voice_id[1] \notin DOMAIN voices)

\* C7: get_tts with no voice_id, or with a voice_id that is not in the
\* registry, returns the engine cached under "default", which is the only
\* engine ever constructed for that key; when the built-in model directory
\* exists such a call fails only if the SparkTTS constructor itself raises.
C7_FallbackToDefault ==
    /\ constructed["default"] <= 1
    /\ (FallbackCall /\ call.raised = NoExc)
          => /\ "default" \in DOMAIN tts_models
             /\ call.engine = <<tts_models["default"]>>
             /\ call.engine[1].key = "default" /\ call.engine[1].serial = 1
    /\ (FallbackCall /\ call.raised # NoExc /\ path_exists(DefaultModelDir))
          => call.raised.msg \in {"engine", "name 'SparkTTS' is not defined"}

\* an id that was resolved and cached, then removed from the registry, now
\* resolves to the default engine, which was already there
C7_Witness ==
    /\ FallbackCall /\ call.raised = NoExc
    /\ call.voice_id # <<>> /\ call.voice_id[1] # "default"
    /\ call.voice_id[1] \in DOMAIN tts_models
    /\ call.engine = <<tts_models["default"]>>
    /\ call.built = {}

\* C8: for distinct registered voices A and B whose model directories exist
\* and whose engines are cached, a get_tts(None) that succeeds returns an
\* engine that is neither A's nor B's, A's and B's differ, and get_tts(A),
\* get_tts(B) and get_tts(None) keep returning these three engines.
C8_Isolation ==
    \A A \in DOMAIN voices, B \in DOMAIN voices :
       (/\ call.op = "get_tts" /\ call.voice_id = <<>> /\ call.raised = NoExc
        /\ A # B
        /\ path_exists(voices[A].model_dir) /\ path_exists(voices[B].model_dir)
        /\ {A, B} \subseteq DOMAIN tts_models)
       => LET eA == get_tts(<<A>>, NoExc).engine
              eB == get_tts(<<B>>, NoExc).engine
              eNone == get_tts(<<>>, NoExc).engine
          IN  /\ eA # eB /\ eA # call.engine /\ eB # call.engine
              /\ eA = <<tts_models[A]>> /\ eB = <<tts_models[B]>>
              /\ eNone = call.engine

\* C9: a tts command line whose --text is missing or empty prints a failure
\* naming the missing argument; get_tts is not called, no engine is
\* constructed or cached, inference is not invoked and no file is written.
C9_EmptyTextRejected ==
    (call.op = "main" /\ call.action = "tts" /\ ~Truthy(call.text))
       => /\ call.result.kind = "unexpected" /\ ~call.result.success
          /\ call.result.detail = "--text argument is required for TTS action"
          /\ ~call.resolved /\ call.built = {} /\ call.inferred = 0
          /\ tts_models = NoModels
          /\ \A k \in VoiceIds : constructed[k] = 0
          /\ out_file = AbsentOut /\ log_file = NoLog

\* an empty text with a registered voice and the integration available
C9_Witness ==
    /\ call.op = "main" /\ call.action = "tts" /\ call.text = <<"">>
    /\ call.voice_id # <<>> /\ call.voice_id[1] \in DOMAIN voices
    /\ SPARK_TTS_AVAILABLE /\ path_exists(voices[call.voice_id[1]].model_dir)
    /\ pc = "exited" /\ ~call.result.success

\* C10: the process never dies without a result, and when it ends it has
\* printed exactly one JSON object carrying a success flag.
C10_AlwaysOneResult ==
    /\ pc # "crashed"
    /\ pc = "exited" => (call.printed = 1 /\ stdout_results = 1)

\* ------------------------------------------------------- request properties
\* A tts command line with a non-empty text: process_tts_request ran.
Request(c) == c.op = "main" /\ c.action = "tts" /\ Truthy(c.text)

\* The operating system refused to create the output directory or to open the
\* file an except clause writes: the OSError left process_tts_request.
OsRefused(c) == c.result.kind = "unexpected" /\ c.result.detail \in {"mkdir", "open"}

\* C11: when SparkTTS could not be imported, every request with a non-empty
\* text (whose output location the operating system lets it write) returns
\* success false with file set to the output path, the placeholder audio is at
\* that path, get_tts is not called, the engine cache stays empty and no
\* diagnostic log is written.
C11_UnavailableGivesPlaceholder ==
    (Request(call) /\ ~SPARK_TTS_AVAILABLE /\ ~OsRefused(call))
       => /\ call.result.kind = "fallback" /\ ~call.result.success
          /\ call.result.file = <<OutputPath>>
          /\ out_file = PlaceholderFile
          /\ ~call.resolved /\ call.built = {} /\ call.inferred = 0
          /\ tts_models = NoModels
          /\ \A k \in VoiceIds : constructed[k] = 0
          /\ log_file = NoLog /\ call.result.log_file = <<>>

\* the request named a registered voice whose directory exists
C11_Witness ==
    /\ Request(call) /\ ~SPARK_TTS_AVAILABLE
    /\ call.voice_id # <<>> /\ call.voice_id[1] \in DOMAIN voices
    /\ path_exists(voices[call.voice_id[1]].model_dir)
    /\ call.result.kind = "fallback" /\ out_file = PlaceholderFile

\* C12: with SparkTTS imported, every request that fails leaves the diagnostic
\* log written with the request's text, voice id, custom path and output path
\* and returns success false, file None, a trace and the log path; a voice
\* whose registered model_dir does not exist gives the "File not found" result.
C12_FailuresLogged ==
    (Request(call) /\ SPARK_TTS_AVAILABLE /\ ~OsRefused(call) /\ ~call.result.success)
       => /\ log_file.exists
          /\ log_file.text = call.text[1] /\ log_file.voice_id = call.voice_id
          /\ log_file.custom = call.custom /\ log_file.output = OutputPath
          /\ call.result.file = <<>> /\ call.result.trace
          /\ call.result.log_file = <<ErrorLogPath>>
          /\ (/\ call.voice_id # <<>> /\ call.voice_id[1] \in DOMAIN voices
              /\ ~path_exists(voices[call.voice_id[1]].model_dir))
             => /\ call.result.kind = "file_not_found"
                /\ call.result.detail = "Model directory for voice not found"

\* C13: with an empty registry, SparkTTS imported, the built-in model directory
\* present and nothing failing, a request with a non-empty text and no
\* voice_id is served by the "default" engine with one inference call and
\* returns success true with file the output path, the audio being there; and
\* no request returns success true unless the output file exists.
C13_DefaultSuccess ==
    /\ (/\ Request(call) /\ call.voice_id = <<>> /\ voices = EmptyDict
        /\ SPARK_TTS_AVAILABLE /\ path_exists(DefaultModelDir)
        /\ call.fault = NoFault
        /\ ~(Truthy(call.custom) /\ ~path_exists(call.custom[1])))
       => /\ call.engine # <<>> /\ call.engine[1].key = "default"
          /\ call.engine[1].model_dir = DefaultModelDir
          /\ call.engine = <<tts_models["default"]>>
          /\ call.inferred = 1
          /\ call.result.kind = "tts_ok" /\ call.result.success
          /\ call.result.file = <<OutputPath>>
          /\ out_file = AudioFile
    /\ (call.op = "main" /\ call.action = "tts" /\ call.result.success)
       => /\ out_file.exists /\ out_file = AudioFile
          /\ call.result.file = <<OutputPath>>

C13_Witness ==
    /\ Request(call) /\ call.voice_id = <<>> /\ voices = EmptyDict
    /\ ~document.exists
    /\ call.result.success /\ call.built = {"default"} /\ call.inferred = 1
    /\ out_file = AudioFile

C17_PlaceholderOnlyWhenUnavailable ==
    (Request(call) /\ SPARK_TTS_AVAILABLE /\ ~OsRefused(call))
       => /\ out_file # PlaceholderFile
          /\ call.result.kind # "fallback"
          /\ ~call.result.success => (call.result.file = <<>> /\ log_file.exists)

\* --------------------------------------------------------- cache properties
\* The cache key get_tts(voice_id) uses and the directory it checks.
Fallback(voice_id) == voice_id = <<>> \/ voice_id[1] \notin DOMAIN voices
KeyOf(voice_id) == IF Fallback(voice_id) THEN "default" ELSE voice_id[1]
DirOf(voice_id) ==
    IF Fallback(voice_id) THEN DefaultModelDir ELSE voices[voice_id[1]].model_dir

\* C15: a get_tts that raises changes neither the engine cache nor the
\* registry and constructs nothing, and its key stays uncached; for an
\* uncached key a missing directory (the built-in one for the fallback, the
\* registered model_dir for a voice) gives the model-not-found error and a
\* failing constructor gives the load error; after a failure, a get_tts of the
\* same id whose directory exists and whose constructor succeeds constructs
\* the engine and returns it.
C15_FailedResolveLeavesNoTrace ==
    [][/\ (call.op = "get_tts" /\ call.raised # NoExc)
          => /\ KeyOf(call.voice_id) \notin DOMAIN tts_models
             /\ (SPARK_TTS_AVAILABLE /\ path_exists(DirOf(call.voice_id)))
                => LET g == get_tts(call.voice_id, NoExc)
                   IN  /\ g.raised = NoExc
                       /\ Built(constructed, g.constructed) = {KeyOf(call.voice_id)}
                       /\ g.engine = <<g.tts_models[KeyOf(call.voice_id)]>>
                       /\ g.engine[1].model_dir = DirOf(call.voice_id)
       /\ call'.op = "get_tts"
          => LET v == call'.voice_id
                 uncached == KeyOf(v) \notin DOMAIN tts_models
             IN  /\ voices' = voices /\ document' = document
                 /\ call'.raised # NoExc
                    => /\ tts_models' = tts_models /\ constructed' = constructed
                       /\ call'.built = {} /\ call'.engine = <<>>
                       /\ uncached
                 /\ (uncached /\ ~path_exists(DirOf(v)))
                    => /\ call'.raised.class = "FileNotFoundError"
                       /\ call'.raised.msg =
                             IF Fallback(v) THEN "Default model directory not found"
                             ELSE "Model directory for voice not found"
                 /\ (uncached /\ path_exists(DirOf(v)) /\ call'.raised # NoExc)
                    => IF Fallback(v)
                       THEN call'.raised.msg \in {"engine", "name 'SparkTTS' is not defined"}
                       ELSE call'.raised = Exc("RuntimeError",
                                               "Failed to load model for voice")]_vars

\* the constructor failed for a registered voice whose directory exists while
\* another engine was cached
C15_Witness ==
    /\ call.op = "get_tts" /\ call.raised.class = "RuntimeError"
    /\ SPARK_TTS_AVAILABLE
    /\ call.voice_id[1] \in DOMAIN voices
    /\ path_exists(voices[call.voice_id[1]].model_dir)
    /\ call.voice_id[1] \notin DOMAIN tts_models
    /\ tts_models # NoModels

\* C16: the engine cached under "default" is the one constructed on the
\* built-in model directory, whatever the registry holds and in whatever
\* order get_tts was called.
C16_DefaultKeyReserved ==
    "default" \in DOMAIN tts_models
       => tts_models["default"].model_dir = DefaultModelDir

\* C18: handle_list_voices changes neither registry nor engine cache and
\* constructs nothing; it succeeds with one entry per registered voice and an
\* entry "default", each entry's loaded telling whether its key is cached and
\* its valid whether its model_dir exists at the call.
C18_ListVoicesReadOnly ==
    [][call'.op = "handle_list_voices"
          => /\ voices' = voices /\ document' = document
             /\ tts_models' = tts_models /\ constructed' = constructed
             /\ call'.result.success
             /\ LET l == call'.result.listing
                IN  /\ DOMAIN l = DOMAIN voices \cup {"default"}
                    /\ \A k \in DOMAIN l :
                          /\ l[k].loaded = (k \in DOMAIN tts_models)
                          /\ l[k].valid = path_exists(l[k].model_dir)
                          /\ l[k].model_dir = IF k \in DOMAIN voices
                                              THEN voices[k].model_dir
                                              ELSE DefaultModelDir
                          /\ k \in DOMAIN voices
                             => l[k].display_name = voices[k].display_name]_vars

\* "default" was never resolved nor registered, and a registered voice is
\* loaded although its directory is gone
C18_Witness ==
    /\ call.op = "handle_list_voices"
    /\ "default" \notin DOMAIN tts_models /\ "default" \notin DOMAIN voices
    /\ "default" \in DOMAIN call.result.listing
    /\ ~call.result.listing["default"].loaded
    /\ \E k \in DOMAIN voices :
          call.result.listing[k].loaded /\ ~call.result.listing[k].valid

\* ------------------------------------------------- two-process properties
\* C19: with two registry processes whose calls interleave, after every
\* completed mutating call the document is the serialisation of the whole
\* in-memory mapping of the process that made the call, and it holds no entry
\* that this process did not have in memory: what the other process wrote
\* since is not merged in.
C19_LastWriterWins ==
    [][/\ (call'.op = "add_voice" \/ (call'.op = "remove_voice" /\ call'.ret_bool))
          => /\ document' = json_dump(voices')
             /\ load_config(document') = voices'
             /\ \A k \in DOMAIN load_config(document') :
                   k = call'.voice_id[1] \/ k \in DOMAIN voices
       /\ (call'.op = "peer_add_voice"
             \/ (call'.op = "peer_remove_voice" /\ call'.ret_bool))
          => /\ document' = json_dump(peer'[1])
             /\ load_config(document') = peer'[1]
             /\ \A k \in DOMAIN load_config(document') :
                   k = call'.voice_id[1] \/ k \in DOMAIN peer[1]]_vars

\* the first process wrote last, and an entry the second process had added
\* is no longer in the document
C19_Witness ==
    /\ call.op = "add_voice" /\ peer # <<>>
    /\ document = json_dump(voices)
    /\ \E m \in DOMAIN peer[1] :
          /\ peer[1][m].display_name = "Bob"
          /\ m \notin DOMAIN voices
          /\ m \notin DOMAIN load_config(document)

\* ------------------------------------------------------ pipeline properties
\* A request that got its engine and then failed: the custom voice file was
\* missing, inference or the write raised, or the output file was not there.
FailedAfterResolve(c) ==
    /\ c.op = "process_tts_request" /\ ~c.result.success
    /\ c.result.detail \in {"Voice file not found: " \o MissingPath, "inference",
                            "write", "Output file was not created"}

\* C20: get_tts runs before every other step of a request, so a request that
\* fails at a later step has its engine, and that engine (constructed by this
\* request or before) is in the cache; a following request for the same voice
\* gets the same engine and constructs nothing.
C20_EngineSurvivesFailure ==
    [][/\ FailedAfterResolve(call')
          => /\ call'.resolved /\ call'.engine # <<>>
             /\ KeyOf(call'.voice_id) \in DOMAIN tts_models'
             /\ tts_models'[KeyOf(call'.voice_id)] = call'.engine[1]
             /\ \A k \in call'.built :
                   k = KeyOf(call'.voice_id) /\ constructed'[k] = constructed[k] + 1
       /\ (/\ FailedAfterResolve(call)
           /\ call'.op = "process_tts_request" /\ call'.voice_id = call.voice_id)
          => /\ call'.built = {}
             /\ call'.engine = call.engine
             /\ constructed' = constructed /\ tts_models' = tts_models]_vars

\* the request constructed a registered voice's engine and then found the
\* custom voice file missing
C20_Witness ==
    /\ FailedAfterResolve(call)
    /\ call.custom = <<MissingPath>>
    /\ call.voice_id # <<>> /\ call.voice_id[1] \in DOMAIN voices
    /\ call.built = {call.voice_id[1]}
    /\ call.voice_id[1] \in DOMAIN tts_models
    /\ <<tts_models[call.voice_id[1]]>> = call.engine

====
